---- MODULE Spec2Model ----
(***************************************************************************)
(* Knowledge Graph Server (src/main.py): a graph of entities, timestamped  *)
(* observations and relations kept in one JSON file.  Every request loads  *)
(* the whole file, works on the graph in memory and, when it mutates,      *)
(* writes the whole file back.                                             *)
(*                                                                         *)
(* Text is modelled as a sequence of characters, so that lower() and the   *)
(* substring test are computed.  A JSON object is a record whose DOMAIN is *)
(* the set of keys it holds; a JSON string that stands where an object may *)
(* stand is wrapped as [str |-> s], any other scalar as [num |-> n].       *)
(*                                                                         *)
(* Requests are served one after the other (Spec, SpecFresh); each handler *)
(* is one step: load, work, save, return.  The clock shows a later time at *)
(* every request, and all datetime.now() calls of one request read the     *)
(* same time.  `last` records the last request, the file it found and what *)
(* it returned or raised.                                                  *)
(*                                                                         *)
(* The handlers are plain `def`s, which the framework runs on a pool of    *)
(* threads, and nothing locks the file: SpecRace serves the mutating       *)
(* requests with the load and the save of each as separate steps, and      *)
(* `inflight` lists the requests in the order of their loads.              *)
(***************************************************************************)
EXTENDS Integers, Sequences, FiniteSets, TLC

VARIABLES file, clock, wl, last, inflight

vars == <<file, clock, wl, last, inflight>>

\* ---------------------------------------------------------------- bounds

\* Requests served in one run (the clock ticks once per request).
MaxOps == 2

\* Items in one request batch.
MaxBatch == 2

\* Requests in flight at the same time (SpecRace).
MaxWorkers == 2

\* ------------------------------------------------------------------ text

Range(s) == {s[i] : i \in DOMAIN s}

UpperAlpha == <<"A","B","C","D","E","F","G","H","I","J","K","L","M",
                "N","O","P","Q","R","S","T","U","V","W","X","Y","Z">>

LowerAlpha == <<"a","b","c","d","e","f","g","h","i","j","k","l","m",
                "n","o","p","q","r","s","t","u","v","w","x","y","z">>

LowerChar(c) ==
    IF \E i \in DOMAIN UpperAlpha : UpperAlpha[i] = c
    THEN LowerAlpha[CHOOSE i \in DOMAIN UpperAlpha : UpperAlpha[i] = c]
    ELSE c

\* str.lower()
Lower(s) == [i \in DOMAIN s |-> LowerChar(s[i])]

\* Python's `needle in hay` on two strings.
Contains(needle, hay) ==
    \E i \in 0..(Len(hay) - Len(needle)) :
        SubSeq(hay, i + 1, i + Len(needle)) = needle

IsSpace(c) == c \in {" ", "\n", "\t"}

RECURSIVE LStrip(_)
LStrip(s) == IF s # <<>> /\ IsSpace(Head(s)) THEN LStrip(Tail(s)) ELSE s

RECURSIVE RStrip(_)
RStrip(s) ==
    IF s # <<>> /\ IsSpace(s[Len(s)]) THEN RStrip(SubSeq(s, 1, Len(s) - 1)) ELSE s

\* str.strip()
Strip(s) == RStrip(LStrip(s))

DigitChar == <<"0","1","2","3","4","5","6","7","8","9">>

RECURSIVE Decimal(_)
Decimal(n) ==
    IF n < 10 THEN <<DigitChar[n + 1]>>
    ELSE Decimal(n \div 10) \o <<DigitChar[(n % 10) + 1]>>

\* datetime.now().isoformat() when the clock reads t.
IsoFormat(t) == <<"T">> \o Decimal(t)

sAlice   == <<"A","l","i","c","e">>
sBob     == <<"B","o","b">>
sPerson  == <<"P","e","r","s","o","n">>
sGeneral == <<"G","e","n","e","r","a","l">>
sKnows   == <<"k","n","o","w","s">>
sTea     == <<"l","i","k","e","s"," ","t","e","a">>
sArt     == <<"A","r","t">>
sOld     == <<"T","0">>

\* ------------------------------------------------------- persistence codec

Ok(v)    == [ok |-> TRUE, val |-> v]
Raise(x) == [ok |-> FALSE, exc |-> x]

HasKey(obj, k) == k \in DOMAIN obj

\* KnowledgeGraph(entities=[], relations=[])
EmptyGraph == [entities |-> <<>>, relations |-> <<>>]

\* The results of a loop that builds one value per element and stops at the
\* first element that raises.
Collect(results) ==
    IF \A i \in DOMAIN results : results[i].ok
    THEN Ok([i \in DOMAIN results |-> results[i].val])
    ELSE Raise(results[CHOOSE i \in DOMAIN results :
                          /\ ~results[i].ok
                          /\ \A j \in DOMAIN results : j < i => results[j].ok].exc)

\* Mutant of CreationTime: the load stamps created_at anew.
CreationTime_Now(e, now) == now

\* e.get("created_at") or e.get("last_modified") or datetime.now().isoformat()
CreationTime(e, now) ==
    IF HasKey(e, "created_at") /\ e.created_at # <<>> THEN e.created_at
    ELSE IF HasKey(e, "last_modified") /\ e.last_modified # <<>> THEN e.last_modified
    ELSE now

\* One element of a stored "observations" list: a bare string takes the
\* entity's creation time, anything else goes through Observation(**o).
LoadObservation(o, creation_time) ==
    IF HasKey(o, "str") THEN Ok([content |-> o.str, timestamp |-> creation_time])
    ELSE IF HasKey(o, "content") /\ HasKey(o, "timestamp")
    THEN Ok([content |-> o.content, timestamp |-> o.timestamp])
    ELSE Raise("ValidationError")

\* Mutant of LoadEntity: a bare string is stamped with the time of the load.
LoadEntity_StampNow(e, now) ==
    LET creation_time == CreationTime(e, now)
        stored == IF HasKey(e, "observations") THEN e.observations ELSE <<>>
        obs_list == Collect([i \in DOMAIN stored |-> LoadObservation(stored[i], now)])
    IN  IF ~obs_list.ok THEN obs_list
        ELSE IF ~HasKey(e, "name") \/ ~HasKey(e, "entityType") THEN Raise("KeyError")
        ELSE Ok([name          |-> e.name,
                 entityType    |-> e.entityType,
                 created_at    |-> creation_time,
                 last_modified |-> IF HasKey(e, "last_modified")
                                   THEN e.last_modified ELSE now,
                 observations  |-> obs_list.val])

LoadEntity(e, now) ==
    LET creation_time == CreationTime(e, now)
        stored == IF HasKey(e, "observations") THEN e.observations ELSE <<>>
        obs_list == Collect([i \in DOMAIN stored |->
                                LoadObservation(stored[i], creation_time)])
    IN  IF ~obs_list.ok THEN obs_list
        ELSE IF ~HasKey(e, "name") \/ ~HasKey(e, "entityType") THEN Raise("KeyError")
        ELSE Ok([name          |-> e.name,
                 entityType    |-> e.entityType,
                 created_at    |-> creation_time,
                 last_modified |-> IF HasKey(e, "last_modified")
                                   THEN e.last_modified ELSE now,
                 observations  |-> obs_list.val])

\* Relation(**r) after `if "created_at" not in r: r["created_at"] = now`.
\* The JSON key "from" populates the field from_.
LoadRelation(r, now) ==
    IF HasKey(r, "from") /\ HasKey(r, "to") /\ HasKey(r, "relationType")
    THEN Ok([from_        |-> r.from,
             to           |-> r.to,
             relationType |-> r.relationType,
             created_at   |-> IF HasKey(r, "created_at") THEN r.created_at ELSE now])
    ELSE Raise("ValidationError")

\* The body of the try block once json.loads has returned `data`.
LoadDocument(data, now) ==
    IF ~HasKey(data, "object") THEN Raise("AttributeError")
    ELSE
    LET doc == data.object
        es  == IF HasKey(doc, "entities") THEN doc.entities ELSE <<>>
        rs  == IF HasKey(doc, "relations") THEN doc.relations ELSE <<>>
        entities  == Collect([i \in DOMAIN es |-> LoadEntity(es[i], now)])
        relations == Collect([i \in DOMAIN rs |-> LoadRelation(rs[i], now)])
    IN  IF ~entities.ok THEN entities
        ELSE IF ~relations.ok THEN relations
        ELSE Ok([entities |-> entities.val, relations |-> relations.val])

\* read_graph_file(): Ok(graph), or Raise(exception) when one leaves the function.
\* A file of kind "text" holds characters that are no JSON document; a file of
\* kind "json" holds the encoding of the JSON value `data`.
ReadGraphFile(f, now) ==
    IF f.kind = "absent" THEN Ok(EmptyGraph)
    ELSE IF f.kind = "text"
    THEN IF Strip(f.text) = <<>>
         THEN Ok(EmptyGraph)          \* if not content
         ELSE Ok(EmptyGraph)          \* json.loads raises: except json.JSONDecodeError
    ELSE LoadDocument(f.data, now)

DumpObservation(o) == [content |-> o.content, timestamp |-> o.timestamp]

DumpEntity(e) ==
    [name          |-> e.name,
     entityType    |-> e.entityType,
     created_at    |-> e.created_at,
     last_modified |-> e.last_modified,
     observations  |-> [i \in DOMAIN e.observations |->
                           DumpObservation(e.observations[i])]]

\* Mutant of DumpRelation: by_alias is left out and the field from_ is written
\* under its own name.
DumpRelation_FieldNames(r) ==
    [from_        |-> r.from_,
     to           |-> r.to,
     relationType |-> r.relationType,
     created_at   |-> r.created_at]

\* by_alias=True: the field from_ is written under the key "from".
DumpRelation(r) ==
    [from         |-> r.from_,
     to           |-> r.to,
     relationType |-> r.relationType,
     created_at   |-> r.created_at]

\* save_graph(graph): the file after the write.
SaveGraph(graph) ==
    [kind |-> "json",
     data |-> [object |->
                [entities  |-> [i \in DOMAIN graph.entities |->
                                   DumpEntity(graph.entities[i])],
                 relations |-> [i \in DOMAIN graph.relations |->
                                   DumpRelation(graph.relations[i])]]]]

\* ------------------------------------------------------ mutation operations

Names(entities) == {entities[i].name : i \in DOMAIN entities}

Triple(r) == <<r.from_, r.to, r.relationType>>

Triples(relations) == {Triple(relations[i]) : i \in DOMAIN relations}

\* The string-form initial observations of a create_entities item.
RECURSIVE InitialObservations(_, _)
InitialObservations(obs, current_time) ==
    IF obs = <<>> THEN <<>>
    ELSE (IF HasKey(Head(obs), "str")
          THEN <<[content |-> Head(obs).str, timestamp |-> current_time]>>
          ELSE <<>>) \o InitialObservations(Tail(obs), current_time)

NewEntity(item, current_time) ==
    [name          |-> item.name,
     entityType    |-> IF HasKey(item, "entityType") THEN item.entityType ELSE sGeneral,
     created_at    |-> current_time,
     last_modified |-> current_time,
     observations  |-> IF HasKey(item, "observations")
                       THEN InitialObservations(item.observations, current_time)
                       ELSE <<>>]

\* `if name and name not in existing_names`
Creates(item, existing_names) ==
    /\ HasKey(item, "name")
    /\ item.name # <<>>
    /\ item.name \notin existing_names

\* Mutant of CreateEntitiesLoop: existing_names.add(name) is forgotten.
RECURSIVE CreateEntitiesLoop_NoAdd(_, _, _, _)
CreateEntitiesLoop_NoAdd(entities, existing_names, items, current_time) ==
    IF items = <<>> THEN entities
    ELSE IF Creates(Head(items), existing_names)
    THEN CreateEntitiesLoop_NoAdd(Append(entities, NewEntity(Head(items), current_time)),
                                  existing_names, Tail(items), current_time)
    ELSE CreateEntitiesLoop_NoAdd(entities, existing_names, Tail(items), current_time)

\* The loop of create_entities over req.entities.
RECURSIVE CreateEntitiesLoop(_, _, _, _)
CreateEntitiesLoop(entities, existing_names, items, current_time) ==
    IF items = <<>> THEN entities
    ELSE IF Creates(Head(items), existing_names)
    THEN CreateEntitiesLoop(Append(entities, NewEntity(Head(items), current_time)),
                            existing_names \cup {Head(items).name},
                            Tail(items), current_time)
    ELSE CreateEntitiesLoop(entities, existing_names, Tail(items), current_time)

\* Mutant of CreateEntitiesBody: an item whose name exists touches that entity.
CreateEntitiesBody_Touch(graph, items, current_time) ==
    LET created == CreateEntitiesLoop(graph.entities, Names(graph.entities),
                                      items, current_time)
        Named(e) == \E k \in DOMAIN items :
                        HasKey(items[k], "name") /\ items[k].name = e.name
    IN  [graph EXCEPT !.entities =
            [i \in DOMAIN created |->
                IF Named(created[i])
                THEN [created[i] EXCEPT !.last_modified = current_time]
                ELSE created[i]]]

\* Mutant of CreateEntitiesBody: the graph that is saved holds the entities of
\* this request only.
CreateEntitiesBody_OnlyNew(graph, items, current_time) ==
    [graph EXCEPT !.entities =
        CreateEntitiesLoop(<<>>, Names(graph.entities), items, current_time)]

CreateEntitiesBody(graph, items, current_time) ==
    [graph EXCEPT !.entities =
        CreateEntitiesLoop(graph.entities, Names(graph.entities), items, current_time)]

\* A request relation after pydantic has built it: created_at defaults to the
\* time of construction.
ParseRelation(item, now) ==
    [from_        |-> item.from,
     to           |-> item.to,
     relationType |-> item.relationType,
     created_at   |-> IF HasKey(item, "created_at") THEN item.created_at ELSE now]

\* `if not r.created_at: r.created_at = current_time`
Stamped(r, current_time) ==
    IF r.created_at = <<>> THEN [r EXCEPT !.created_at = current_time] ELSE r

\* Mutant of CreateRelationsLoop: a triple that is present replaces the relation
\* of that triple instead of being skipped.
RECURSIVE CreateRelationsLoop_Replace(_, _, _, _)
CreateRelationsLoop_Replace(relations, existing, rs, current_time) ==
    IF rs = <<>> THEN relations
    ELSE IF Triple(Head(rs)) \notin existing
    THEN CreateRelationsLoop_Replace(Append(relations, Stamped(Head(rs), current_time)),
                                     existing \cup {Triple(Head(rs))},
                                     Tail(rs), current_time)
    ELSE CreateRelationsLoop_Replace(
            [i \in DOMAIN relations |->
                IF Triple(relations[i]) = Triple(Head(rs))
                THEN Stamped(Head(rs), current_time) ELSE relations[i]],
            existing, Tail(rs), current_time)

\* Mutant of CreateRelationsLoop: existing.add(...) is forgotten.
RECURSIVE CreateRelationsLoop_NoAdd(_, _, _, _)
CreateRelationsLoop_NoAdd(relations, existing, rs, current_time) ==
    IF rs = <<>> THEN relations
    ELSE IF Triple(Head(rs)) \notin existing
    THEN CreateRelationsLoop_NoAdd(Append(relations, Stamped(Head(rs), current_time)),
                                   existing, Tail(rs), current_time)
    ELSE CreateRelationsLoop_NoAdd(relations, existing, Tail(rs), current_time)

\* The loop of create_relations over req.relations.
RECURSIVE CreateRelationsLoop(_, _, _, _)
CreateRelationsLoop(relations, existing, rs, current_time) ==
    IF rs = <<>> THEN relations
    ELSE IF Triple(Head(rs)) \notin existing
    THEN CreateRelationsLoop(Append(relations, Stamped(Head(rs), current_time)),
                             existing \cup {Triple(Head(rs))},
                             Tail(rs), current_time)
    ELSE CreateRelationsLoop(relations, existing, Tail(rs), current_time)

\* Mutant of CreateRelationsBody: the entities a request relation starts or
\* ends at are marked as modified.
CreateRelationsBody_TouchEndpoints(graph, rs, current_time) ==
    LET Endpoint(e) == \E k \in DOMAIN rs : e.name \in {rs[k].from_, rs[k].to}
    IN  [entities  |-> [i \in DOMAIN graph.entities |->
                          IF Endpoint(graph.entities[i])
                          THEN [graph.entities[i] EXCEPT !.last_modified = current_time]
                          ELSE graph.entities[i]],
         relations |-> CreateRelationsLoop(graph.relations, Triples(graph.relations),
                                           rs, current_time)]

CreateRelationsBody(graph, rs, current_time) ==
    [graph EXCEPT !.relations =
        CreateRelationsLoop(graph.relations, Triples(graph.relations), rs, current_time)]

\* next((e for e in graph.entities if e.name == name), None): the index of the
\* first entity of that name, 0 for None.
FindEntity(entities, name) ==
    IF \E i \in DOMAIN entities : entities[i].name = name
    THEN CHOOSE i \in DOMAIN entities :
            /\ entities[i].name = name
            /\ \A j \in DOMAIN entities : j < i => entities[j].name # name
    ELSE 0

Contents(observations) == {observations[i].content : i \in DOMAIN observations}

\* Mutant of AppendNew: a new observation is put before the existing ones.
RECURSIVE AppendNew_Prepend(_, _, _)
AppendNew_Prepend(observations, contents, current_time) ==
    IF contents = <<>> THEN observations
    ELSE IF Head(contents) \notin Contents(observations)
    THEN AppendNew_Prepend(
            <<[content |-> Head(contents), timestamp |-> current_time]>> \o observations,
            Tail(contents), current_time)
    ELSE AppendNew_Prepend(observations, Tail(contents), current_time)

\* Mutant of AppendNew: every listed content is appended.
RECURSIVE AppendNew_NoCheck(_, _, _)
AppendNew_NoCheck(observations, contents, current_time) ==
    IF contents = <<>> THEN observations
    ELSE AppendNew_NoCheck(Append(observations,
                                  [content |-> Head(contents), timestamp |-> current_time]),
                           Tail(contents), current_time)

\* The inner loop of add_observations: each content not yet held is appended.
RECURSIVE AppendNew(_, _, _)
AppendNew(observations, contents, current_time) ==
    IF contents = <<>> THEN observations
    ELSE IF Head(contents) \notin Contents(observations)
    THEN AppendNew(Append(observations,
                          [content |-> Head(contents), timestamp |-> current_time]),
                   Tail(contents), current_time)
    ELSE AppendNew(observations, Tail(contents), current_time)

\* f"Added {count} to {item.entityName}"
AddedLine(count, entityName) ==
    <<"A","d","d","e","d"," ">> \o Decimal(count) \o <<" ","t","o"," ">> \o entityName

\* The loop of add_observations over req.observations: the entities and the
\* result lines after the remaining items.
RECURSIVE AddObservationsLoop(_, _, _, _)
AddObservationsLoop(entities, results, items, current_time) ==
    IF items = <<>> THEN [entities |-> entities, results |-> results]
    ELSE
    LET item == Head(items)
        k    == FindEntity(entities, item.entityName)
    IN  IF k = 0
        THEN AddObservationsLoop(entities, results, Tail(items), current_time)
        ELSE
        LET grown == AppendNew(entities[k].observations, item.contents, current_time)
            count == Len(grown) - Len(entities[k].observations)
        IN  IF count > 0
            THEN AddObservationsLoop(
                    [entities EXCEPT ![k].observations = grown,
                                     ![k].last_modified = current_time],
                    Append(results, AddedLine(count, item.entityName)),
                    Tail(items), current_time)
            ELSE AddObservationsLoop(entities, results, Tail(items), current_time)

\* Mutant of AddObservationsBody: last_modified is set for every entity an item
\* names, whether or not anything was appended.
AddObservationsBody_AlwaysTouch(graph, items, current_time) ==
    LET out == AddObservationsLoop(graph.entities, <<>>, items, current_time)
        Named(e) == \E k \in DOMAIN items : items[k].entityName = e.name
    IN  [graph   |-> [graph EXCEPT !.entities =
                        [i \in DOMAIN out.entities |->
                            IF Named(out.entities[i])
                            THEN [out.entities[i] EXCEPT !.last_modified = current_time]
                            ELSE out.entities[i]]],
         results |-> out.results]

AddObservationsBody(graph, items, current_time) ==
    LET out == AddObservationsLoop(graph.entities, <<>>, items, current_time)
    IN  [graph   |-> [graph EXCEPT !.entities = out.entities],
         results |-> out.results]

KeepEntity(e, entityNames) == e.name \notin Range(entityNames)

\* Mutant of KeepRelation: the cascade looks at the source of a relation only.
KeepRelation_FromOnly(r, entityNames) == r.from_ \notin Range(entityNames)

KeepRelation(r, entityNames) ==
    r.from_ \notin Range(entityNames) /\ r.to \notin Range(entityNames)

DeleteEntitiesBody(graph, entityNames) ==
    LET KeepE(e) == KeepEntity(e, entityNames)
        KeepR(r) == KeepRelation(r, entityNames)
    IN  [entities  |-> SelectSeq(graph.entities, KeepE),
         relations |-> SelectSeq(graph.relations, KeepR)]

\* Mutant of DeleteObservationsLoop: last_modified is set only when an
\* observation was removed.
RECURSIVE DeleteObservationsLoop_TouchIfRemoved(_, _, _)
DeleteObservationsLoop_TouchIfRemoved(entities, items, now) ==
    IF items = <<>> THEN entities
    ELSE
    LET item == Head(items)
        k    == IF HasKey(item, "entityName")
                THEN FindEntity(entities, item.entityName) ELSE 0
        to_delete == IF HasKey(item, "observations") THEN item.observations ELSE <<>>
        Kept(o) == o.content \notin Range(to_delete)
    IN  IF k = 0 THEN DeleteObservationsLoop_TouchIfRemoved(entities, Tail(items), now)
        ELSE DeleteObservationsLoop_TouchIfRemoved(
                [entities EXCEPT ![k].observations = SelectSeq(@, Kept),
                                 ![k].last_modified =
                                    IF SelectSeq(entities[k].observations, Kept)
                                            = entities[k].observations
                                    THEN @ ELSE now],
                Tail(items), now)

\* The loop of delete_observations over req.deletions.
RECURSIVE DeleteObservationsLoop(_, _, _)
DeleteObservationsLoop(entities, items, now) ==
    IF items = <<>> THEN entities
    ELSE
    LET item == Head(items)
        k    == IF HasKey(item, "entityName")
                THEN FindEntity(entities, item.entityName) ELSE 0
        to_delete == IF HasKey(item, "observations") THEN item.observations ELSE <<>>
        Kept(o) == o.content \notin Range(to_delete)
    IN  IF k = 0 THEN DeleteObservationsLoop(entities, Tail(items), now)
        ELSE DeleteObservationsLoop(
                [entities EXCEPT ![k].observations = SelectSeq(@, Kept),
                                 ![k].last_modified = now],
                Tail(items), now)

DeleteObservationsBody(graph, items, now) ==
    [graph EXCEPT !.entities = DeleteObservationsLoop(graph.entities, items, now)]

DeleteRelationsBody(graph, rs) ==
    LET to_delete == Triples(rs)
        Kept(r) == Triple(r) \notin to_delete
    IN  [graph EXCEPT !.relations = SelectSeq(graph.relations, Kept)]

\* --------------------------------------------------------- query operations

\* Mutant of OpenNodesBody: relations are filtered by the requested names.
OpenNodesBody_Requested(graph, names) ==
    LET target_names == Range(names)
        Wanted(e) == e.name \in target_names
        Connected(r) == r.from_ \in target_names \/ r.to \in target_names
    IN  [entities  |-> SelectSeq(graph.entities, Wanted),
         relations |-> SelectSeq(graph.relations, Connected)]

OpenNodesBody(graph, names) ==
    LET target_names == Range(names)
        Wanted(e) == e.name \in target_names
        entities == SelectSeq(graph.entities, Wanted)
        found_names == Names(entities)
        Connected(r) == r.from_ \in found_names \/ r.to \in found_names
    IN  [entities |-> entities, relations |-> SelectSeq(graph.relations, Connected)]

\* The test of search_nodes on one entity; query is already lower-cased.
Matches(e, query) ==
    \/ Contains(query, Lower(e.name))
    \/ Contains(query, Lower(e.entityType))
    \/ \E i \in DOMAIN e.observations : Contains(query, Lower(e.observations[i].content))

\* Mutant of SearchNodesBody: a relation needs one matched endpoint only.
SearchNodesBody_Either(graph, q) ==
    LET query == Lower(q)
        Matched(e) == Matches(e, query)
        matched_entities == SelectSeq(graph.entities, Matched)
        found_names == Names(matched_entities)
        Touching(r) == r.from_ \in found_names \/ r.to \in found_names
    IN  [entities |-> matched_entities, relations |-> SelectSeq(graph.relations, Touching)]

SearchNodesBody(graph, q) ==
    LET query == Lower(q)
        Matched(e) == Matches(e, query)
        matched_entities == SelectSeq(graph.entities, Matched)
        found_names == Names(matched_entities)
        Inside(r) == r.from_ \in found_names /\ r.to \in found_names
    IN  [entities |-> matched_entities, relations |-> SelectSeq(graph.relations, Inside)]

\* ---------------------------------------------------------- retrieve_context

\* The observations of the entities whose entityType contains the tag, in the
\* order the loops of retrieve_context meet them.
RECURSIVE CandidateObservations(_, _)
CandidateObservations(entities, target_tag) ==
    IF entities = <<>> THEN <<>>
    ELSE (IF Contains(target_tag, Lower(Head(entities).entityType))
          THEN Head(entities).observations ELSE <<>>)
         \o CandidateObservations(Tail(entities), target_tag)

\* doc_map.get(text): the observation met last with that content, Ok or None.
DocMapGet(candidates, text) ==
    IF \E i \in DOMAIN candidates : candidates[i].content = text
    THEN Ok(candidates[CHOOSE i \in DOMAIN candidates :
                          /\ candidates[i].content = text
                          /\ \A j \in DOMAIN candidates :
                                j > i => candidates[j].content # text])
    ELSE Raise("None")

\* ranked_results[: top_k]
SliceTo(s, top_k) ==
    IF top_k >= 0
    THEN SubSeq(s, 1, IF top_k < Len(s) THEN top_k ELSE Len(s))
    ELSE SubSeq(s, 1, IF Len(s) + top_k > 0 THEN Len(s) + top_k ELSE 0)

\* round(float(score), 4), scores counted in units of 0.00001.
Round4(score) == ((score + 5) \div 10) * 10

TopResults(ranked_results, candidates, top_k) ==
    LET shown == SliceTo(ranked_results, top_k)
    IN  [i \in DOMAIN shown |->
            LET original == DocMapGet(candidates, shown[i][1])
            IN  [content    |-> shown[i][1],
                 score      |-> Round4(shown[i][2]),
                 created_at |-> IF original.ok THEN original.val.timestamp ELSE <<>>]]

EngineUnavailable == [error |-> <<"WordLlama engine not loaded.">>]

NoMemories(req) ==
    [tag |-> req.canonical_entity, results |-> <<>>, message |-> "No memories found."]

RerankingFailed(e) == [error |-> <<"Reranking failed: ", e>>]

Ranked(req, top_results) ==
    [tag |-> req.canonical_entity, query |-> req.query_thought, results |-> top_results]

\* retrieve_context once the engine is known to be present and the graph is
\* loaded; `outcome` is what wl.rank does: [raises |-> message] or
\* [ranking |-> the (document, score) pairs].
RetrieveContextBody(graph, req, outcome) ==
    LET target_tag == Lower(req.canonical_entity)
        candidates == CandidateObservations(graph.entities, target_tag)
    IN  IF candidates = <<>> THEN NoMemories(req)
        ELSE IF HasKey(outcome, "raises") THEN RerankingFailed(outcome.raises)
        ELSE Ranked(req, TopResults(outcome.ranking, candidates, req.top_k))

\* ------------------------------------------------------------------ inputs

Batches(S) == UNION {[1..n -> S] : n \in 0..MaxBatch}

EntityNames == {sAlice, sBob}

\* create_entities items: {name?, entityType?, observations?}; an observation
\* that is no string is [num |-> n].
EntityItems ==
    { [name |-> sAlice, entityType |-> sPerson,
       observations |-> <<[str |-> sTea], [num |-> 7], [str |-> sTea]>>],
      [name |-> sBob],
      [entityType |-> sPerson, observations |-> <<[str |-> sArt]>>] }

\* create_relations items: {from, to, relationType, created_at?}
RelationItems ==
    { [from |-> sAlice, to |-> sBob, relationType |-> sKnows, created_at |-> <<>>],
      [from |-> sAlice, to |-> sBob, relationType |-> sKnows, created_at |-> sOld] }

\* delete_relations items: {from, to, relationType}
TripleItems ==
    { [from |-> sAlice, to |-> sBob, relationType |-> sKnows],
      [from |-> sBob, to |-> sAlice, relationType |-> sKnows] }

\* add_observations items: {entityName, contents}
ObservationItems ==
    { [entityName |-> sAlice, contents |-> <<sTea>>],
      [entityName |-> sBob, contents |-> <<sArt, sArt>>] }

\* delete_observations items: {entityName?, observations?}
DeletionItems ==
    { [entityName |-> sAlice, observations |-> <<sTea>>],
      [entityName |-> sBob] }

Queries == { <<"A","L","I">>, <<"b","o","b">>, <<"a","r","t">>, <<>> }

CanonicalEntities == { <<"P","E","R">>, <<"z">> }

TopKs == {-1, 0, 1, 3}

RetrieveRequests ==
    { [canonical_entity |-> c, query_thought |-> sTea, top_k |-> k] :
        c \in CanonicalEntities, k \in TopKs }

\* The score the engine gives the document it ranks i-th, in units of 0.00001.
ScoreAt(i) == (100000 \div (i + 1)) + 3

\* What wl.rank(query, docs, sort=True) may do: raise, or rank the documents in
\* the order given or in the opposite order.
EngineOutcomes(docs) ==
    { [raises |-> "engine failure"],
      [ranking |-> [i \in DOMAIN docs |-> <<docs[i], ScoreAt(i)>>]],
      [ranking |-> [i \in DOMAIN docs |-> <<docs[Len(docs) + 1 - i], ScoreAt(i)>>]] }

\* ------------------------------------------------------------- initial files

FileAbsent == [kind |-> "absent"]

\* A file written by an earlier run of the server.
SavedFile ==
    SaveGraph(
        [entities |->
            << [name |-> sAlice, entityType |-> sPerson, created_at |-> sOld,
                last_modified |-> sOld,
                observations |-> <<[content |-> sTea, timestamp |-> sOld]>>],
               [name |-> sBob, entityType |-> sPerson, created_at |-> sOld,
                last_modified |-> sOld, observations |-> <<>>] >>,
         relations |->
            << [from_ |-> sAlice, to |-> sBob, relationType |-> sKnows,
                created_at |-> sOld] >>])

\* A file of the legacy shape: bare-string observations, timestamps missing.
LegacyFile ==
    [kind |-> "json",
     data |-> [object |->
        [entities |->
            << [name |-> sAlice, entityType |-> sPerson,
                observations |-> <<[str |-> sArt]>>],
               [name |-> sBob, entityType |-> sPerson, last_modified |-> sOld,
                observations |-> <<[str |-> sArt],
                                   [content |-> sTea, timestamp |-> sOld]>>] >>,
         relations |->
            << [from |-> sBob, to |-> sAlice, relationType |-> sKnows] >>]]]

\* Files json.loads accepts that are no graph document.
InvalidFiles ==
    { [kind |-> "json", data |-> [array |-> <<>>]],
      [kind |-> "json", data |-> [object |->
          [entities |-> <<[entityType |-> sPerson]>>, relations |-> <<>>]]],
      [kind |-> "json", data |-> [object |->
          [entities |-> <<[name |-> sAlice]>>, relations |-> <<>>]]] }

\* Files without a JSON document: empty, whitespace only, truncated.
TextFiles ==
    { [kind |-> "text", text |-> <<>>],
      [kind |-> "text", text |-> <<" ", "\n">>],
      [kind |-> "text", text |-> <<"{">>] }

FreshFiles == {FileAbsent} \cup {f \in TextFiles : Strip(f.text) = <<>>}

InitialFiles ==
    FreshFiles \cup TextFiles \cup InvalidFiles
        \cup {[kind |-> "json", data |-> [object |-> [relations |-> <<>>]]],
              LegacyFile, SavedFile}

\* ------------------------------------------------------------------ actions

\* The state when the server starts to serve: the memory file is whatever is
\* on disk, and lifespan has loaded the engine or left wl at None.
Init ==
    /\ file \in InitialFiles
    /\ clock = 1
    /\ wl \in BOOLEAN
    /\ last = [op |-> "startup"]
    /\ inflight = <<>>

InitFresh ==
    /\ file \in FreshFiles
    /\ clock = 1
    /\ wl \in BOOLEAN
    /\ last = [op |-> "startup"]
    /\ inflight = <<>>

Returned(v) == [returned |-> v]
Raised(x)   == [raised |-> x]

\* One request, served at the time the clock shows; the requests are served one
\* after the other and the clock has moved on when the next one starts.
\* `effect` is what the handler did: [graph |-> the graph it saved, value |->
\* what it returned] (no graph for a handler that does not save), or
\* [raised |-> the exception of the load], which leaves the file as it was.
\* The record of a request that has ended: the file its load read, what it
\* returned or raised and, when it saved, the graph it held at the save.
Ended(op, req, now, pre, effect) ==
    LET record == [op |-> op, req |-> req, now |-> now, pre |-> pre,
                   resp |-> IF HasKey(effect, "raised") THEN Raised(effect.raised)
                            ELSE Returned(effect.value)]
    IN  IF HasKey(effect, "graph") THEN record @@ [held |-> effect.graph] ELSE record

Serve(op, req, effect) ==
    /\ clock' = clock + 1
    /\ UNCHANGED <<wl, inflight>>
    /\ file' = IF HasKey(effect, "graph") THEN SaveGraph(effect.graph) ELSE file
    /\ last' = Ended(op, req, IsoFormat(clock), file, effect)

Loaded == ReadGraphFile(file, IsoFormat(clock))

ReadGraph ==
    /\ clock <= MaxOps
    /\ LET loaded == Loaded
       IN  Serve("read_graph", <<>>,
                 IF loaded.ok THEN [value |-> loaded.val] ELSE [raised |-> loaded.exc])

CreateEntities ==
    /\ clock <= MaxOps
    /\ LET loaded == Loaded
           current_time == IsoFormat(clock)
       IN  \E items \in Batches(EntityItems) :
            Serve("create_entities", items,
                  IF loaded.ok
                  THEN [graph |-> CreateEntitiesBody(loaded.val, items, current_time),
                        value |-> [message |-> "Entities created"]]
                  ELSE [raised |-> loaded.exc])

CreateRelations ==
    /\ clock <= MaxOps
    /\ LET loaded == Loaded
           current_time == IsoFormat(clock)
       IN  \E items \in Batches(RelationItems) :
            LET rs == [i \in DOMAIN items |-> ParseRelation(items[i], current_time)]
            IN  Serve("create_relations", rs,
                      IF loaded.ok
                      THEN [graph |-> CreateRelationsBody(loaded.val, rs, current_time),
                            value |-> [message |-> "Relations created"]]
                      ELSE [raised |-> loaded.exc])

AddObservations ==
    /\ clock <= MaxOps
    /\ LET loaded == Loaded
           current_time == IsoFormat(clock)
       IN  \E items \in Batches(ObservationItems) :
            Serve("add_observations", items,
                  IF loaded.ok
                  THEN LET out == AddObservationsBody(loaded.val, items, current_time)
                       IN  [graph |-> out.graph, value |-> [results |-> out.results]]
                  ELSE [raised |-> loaded.exc])

DeleteEntities ==
    /\ clock <= MaxOps
    /\ LET loaded == Loaded
       IN  \E entityNames \in Batches(EntityNames) :
            Serve("delete_entities", entityNames,
                  IF loaded.ok
                  THEN [graph |-> DeleteEntitiesBody(loaded.val, entityNames),
                        value |-> [message |-> "Deleted entities"]]
                  ELSE [raised |-> loaded.exc])

DeleteObservations ==
    /\ clock <= MaxOps
    /\ LET loaded == Loaded
           now == IsoFormat(clock)
       IN  \E items \in Batches(DeletionItems) :
            Serve("delete_observations", items,
                  IF loaded.ok
                  THEN [graph |-> DeleteObservationsBody(loaded.val, items, now),
                        value |-> [message |-> "Deleted observations"]]
                  ELSE [raised |-> loaded.exc])

DeleteRelations ==
    /\ clock <= MaxOps
    /\ LET loaded == Loaded
           now == IsoFormat(clock)
       IN  \E items \in Batches(TripleItems) :
            LET rs == [i \in DOMAIN items |-> ParseRelation(items[i], now)]
            IN  Serve("delete_relations", rs,
                      IF loaded.ok
                      THEN [graph |-> DeleteRelationsBody(loaded.val, rs),
                            value |-> [message |-> "Deleted relations"]]
                      ELSE [raised |-> loaded.exc])

OpenNodes ==
    /\ clock <= MaxOps
    /\ LET loaded == Loaded
       IN  \E names \in Batches(EntityNames) :
            Serve("open_nodes", names,
                  IF loaded.ok THEN [value |-> OpenNodesBody(loaded.val, names)]
                  ELSE [raised |-> loaded.exc])

SearchNodes ==
    /\ clock <= MaxOps
    /\ LET loaded == Loaded
       IN  \E query \in Queries :
            Serve("search_nodes", query,
                  IF loaded.ok THEN [value |-> SearchNodesBody(loaded.val, query)]
                  ELSE [raised |-> loaded.exc])

\* The documents retrieve_context hands to the engine; <<>> when it does not
\* reach the engine.
CandidateDocs(loaded, req) ==
    IF wl /\ loaded.ok
    THEN LET candidates ==
                CandidateObservations(loaded.val.entities, Lower(req.canonical_entity))
         IN  [i \in DOMAIN candidates |-> candidates[i].content]
    ELSE <<>>

\* `if not wl` is decided before the load.  The request is recorded with what
\* the engine did for it ([unused |-> TRUE] when it was not called).
RetrieveContext ==
    /\ clock <= MaxOps
    /\ LET loaded == Loaded
       IN  \E req \in RetrieveRequests :
            LET docs == CandidateDocs(loaded, req)
            IN  \E outcome \in IF docs = <<>> THEN {[unused |-> TRUE]}
                               ELSE EngineOutcomes(docs) :
                    Serve("retrieve_context", [request |-> req, engine |-> outcome],
                          IF ~wl THEN [value |-> EngineUnavailable]
                          ELSE IF loaded.ok
                          THEN [value |-> RetrieveContextBody(loaded.val, req, outcome)]
                          ELSE [raised |-> loaded.exc])

Next ==
    \/ ReadGraph
    \/ CreateEntities
    \/ CreateRelations
    \/ AddObservations
    \/ DeleteEntities
    \/ DeleteObservations
    \/ DeleteRelations
    \/ OpenNodes
    \/ SearchNodes
    \/ RetrieveContext

Spec == Init /\ [][Next]_vars

SpecFresh == InitFresh /\ [][Next]_vars

\* ------------------------------------------------- requests that overlap

\* What a mutating handler does between its load and its save, on the graph
\* the load returned.
Handle(op, graph, req, now) ==
    CASE op = "create_entities" ->
            [graph |-> CreateEntitiesBody(graph, req, now),
             value |-> [message |-> "Entities created"]]
      [] op = "create_relations" ->
            [graph |-> CreateRelationsBody(graph,
                            [i \in DOMAIN req |-> ParseRelation(req[i], now)], now),
             value |-> [message |-> "Relations created"]]
      [] op = "add_observations" ->
            LET out == AddObservationsBody(graph, req, now)
            IN  [graph |-> out.graph, value |-> [results |-> out.results]]
      [] op = "delete_entities" ->
            [graph |-> DeleteEntitiesBody(graph, req),
             value |-> [message |-> "Deleted entities"]]
      [] op = "delete_observations" ->
            [graph |-> DeleteObservationsBody(graph, req, now),
             value |-> [message |-> "Deleted observations"]]
      [] op = "delete_relations" ->
            [graph |-> DeleteRelationsBody(graph,
                            [i \in DOMAIN req |-> ParseRelation(req[i], now)]),
             value |-> [message |-> "Deleted relations"]]

\* The mutating requests that are sent while others are in flight.
RaceRequests ==
    << [op |-> "create_entities",
       req |-> <<[name |-> sAlice, entityType |-> sPerson,
                  observations |-> <<[str |-> sTea]>>]>>],
      [op |-> "create_entities", req |-> <<[name |-> sBob], [name |-> sBob]>>],
      [op |-> "create_relations",
       req |-> <<[from |-> sAlice, to |-> sBob, relationType |-> sKnows,
                  created_at |-> <<>>],
                 [from |-> sAlice, to |-> sBob, relationType |-> sKnows,
                  created_at |-> sOld]>>],
      [op |-> "add_observations",
       req |-> <<[entityName |-> sAlice, contents |-> <<sArt>>]>>],
      [op |-> "delete_entities", req |-> <<sBob>>],
      [op |-> "delete_observations",
       req |-> <<[entityName |-> sAlice, observations |-> <<sTea>>]>>],
      [op |-> "delete_relations",
       req |-> <<[from |-> sAlice, to |-> sBob, relationType |-> sKnows]>>] >>

\* The server starts on a file whose entity names and relation triples are
\* unique.
InitRace ==
    /\ file \in {FileAbsent, SavedFile, LegacyFile}
    /\ clock = 1
    /\ wl = FALSE
    /\ last = [op |-> "startup"]
    /\ inflight = <<>>

\* A thread takes a request, loads the file and works on the graph in memory.
\* The clock ticks at every step, so loadedAt and savedAt order the steps.
BeginRequest ==
    /\ Len(inflight) < MaxWorkers
    /\ \E k \in DOMAIN RaceRequests :
        LET r      == RaceRequests[k]
            now    == IsoFormat(clock)
            loaded == ReadGraphFile(file, now)
            effect == IF loaded.ok THEN Handle(r.op, loaded.val, r.req, now)
                      ELSE [raised |-> loaded.exc]
        IN  /\ inflight' = Append(inflight,
                    [pc |-> IF loaded.ok THEN "loaded" ELSE "done",
                     op |-> r.op, req |-> r.req, now |-> now, pre |-> file,
                     effect |-> effect, loadedAt |-> clock, savedAt |-> 0])
            /\ last' = IF loaded.ok THEN last
                       ELSE Ended(r.op, r.req, now, file, effect)
    /\ clock' = clock + 1
    /\ UNCHANGED <<file, wl>>

\* A thread that holds a graph writes it over the file and returns.
FinishRequest ==
    /\ \E i \in DOMAIN inflight :
        /\ inflight[i].pc = "loaded"
        /\ file' = SaveGraph(inflight[i].effect.graph)
        /\ inflight' = [inflight EXCEPT ![i].pc = "done", ![i].savedAt = clock]
        /\ last' = Ended(inflight[i].op, inflight[i].req, inflight[i].now,
                         inflight[i].pre, inflight[i].effect)
    /\ clock' = clock + 1
    /\ UNCHANGED wl

NextRace ==
    \/ BeginRequest
    \/ FinishRequest

SpecRace == InitRace /\ [][NextRace]_vars

\* ------------------------------------------------------------------ claims

\* The last request was `op` and its handler returned.
Completed(op) == last.op = op /\ HasKey(last.resp, "returned")

\* The graph the last request's own load returned.
PreGraph == ReadGraphFile(last.pre, last.now).val

\* The graph the file holds now.
PostGraph == ReadGraphFile(file, IsoFormat(clock)).val

CountNamed(entities, name) ==
    Cardinality({i \in DOMAIN entities : entities[i].name = name})

CountTriple(relations, t) ==
    Cardinality({i \in DOMAIN relations : Triple(relations[i]) = t})

\* C1: after delete_entities(names) returns, the persisted graph holds no entity
\* named in names and no relation with an endpoint in names, whether or not such
\* an entity existed; every other entity and every relation with neither
\* endpoint in names is still there, unchanged and in the same order.
C1_DeleteEntitiesCascades ==
    Completed("delete_entities") =>
        LET names == Range(last.req)
            pre   == PreGraph
            post  == PostGraph
            KeptE(e) == e.name \notin names
            KeptR(r) == r.from_ \notin names /\ r.to \notin names
        IN  /\ \A e \in Range(post.entities) : e.name \notin names
            /\ \A r \in Range(post.relations) : r.from_ \notin names /\ r.to \notin names
            /\ \A e \in Range(pre.entities) : KeptE(e) => e \in Range(post.entities)
            /\ \A r \in Range(pre.relations) : KeptR(r) => r \in Range(post.relations)
            /\ post.entities = SelectSeq(pre.entities, KeptE)
            /\ post.relations = SelectSeq(pre.relations, KeptR)

\* Alice, Bob and Alice -> Bob "knows"; delete_entities([Alice]) has left
\* entities = [Bob] and relations = [].
C1_Witness ==
    /\ Completed("delete_entities")
    /\ last.req = <<sAlice>>
    /\ Names(PreGraph.entities) = {sAlice, sBob}
    /\ Triples(PreGraph.relations) = {<<sAlice, sBob, sKnows>>}
    /\ Len(PostGraph.entities) = 1
    /\ PostGraph.entities[1].name = sBob
    /\ PostGraph.relations = <<>>

\* C2: from an absent or empty file, after any sequence of requests, no two
\* entities of the persisted graph share a name.
C2_EntityNamesUnique ==
    LET loaded == Loaded
    IN  /\ loaded.ok
        /\ \A i, j \in DOMAIN loaded.val.entities :
                loaded.val.entities[i].name = loaded.val.entities[j].name => i = j

\* create_entities was given a batch that repeats a name, and the entity exists.
C2_Witness ==
    /\ Completed("create_entities")
    /\ \E i, j \in DOMAIN last.req :
            /\ i # j
            /\ HasKey(last.req[i], "name") /\ HasKey(last.req[j], "name")
            /\ last.req[i].name = last.req[j].name
            /\ last.req[i].name \notin Names(PreGraph.entities)
            /\ last.req[i].name \in Names(PostGraph.entities)

\* C3: from an absent or empty file, after any sequence of requests, no two
\* relations of the persisted graph share (from, to, relationType);
\* create_relations keeps every relation that was there as it was, and for a
\* triple that was not there it adds one relation, built from the first item of
\* the batch with that triple.
C3_RelationTriplesUnique ==
    LET loaded == Loaded
    IN  /\ loaded.ok
        /\ \A i, j \in DOMAIN loaded.val.relations :
                Triple(loaded.val.relations[i]) = Triple(loaded.val.relations[j]) => i = j
        /\ Completed("create_relations") =>
            LET pre  == PreGraph.relations
                post == loaded.val.relations
            IN  /\ \A i \in DOMAIN pre : i \in DOMAIN post /\ post[i] = pre[i]
                /\ \A t \in Triples(pre) : CountTriple(post, t) = CountTriple(pre, t)
                /\ \A k \in DOMAIN last.req :
                    LET t == Triple(last.req[k])
                        first == CHOOSE i \in DOMAIN last.req :
                                    /\ Triple(last.req[i]) = t
                                    /\ \A j \in DOMAIN last.req :
                                          j < i => Triple(last.req[j]) # t
                    IN  t \notin Triples(pre) =>
                            \E r \in Range(post) :
                                /\ Triple(r) = t
                                /\ r.created_at = IF last.req[first].created_at = <<>>
                                                  THEN last.now
                                                  ELSE last.req[first].created_at

\* create_relations was given a triple that an earlier call had created, with
\* another created_at, and the graph holds that triple once.
C3_Witness ==
    /\ Completed("create_relations")
    /\ \E k \in DOMAIN last.req : \E r \in Range(PreGraph.relations) :
            /\ Triple(last.req[k]) = Triple(r)
            /\ last.req[k].created_at # r.created_at
            /\ r \in Range(PostGraph.relations)
            /\ CountTriple(PostGraph.relations, Triple(r)) = 1

\* C4: create_entities leaves every entity that existed before the call exactly
\* as it was (entityType, created_at, last_modified, observations), also when an
\* item of that name carries another entityType or other observations, and adds
\* no second entity of an existing name.
C4_CreateEntitiesSkipsExisting ==
    Completed("create_entities") =>
        LET pre  == PreGraph.entities
            post == PostGraph.entities
        IN  /\ \A i \in DOMAIN pre : i \in DOMAIN post /\ post[i] = pre[i]
            /\ \A n \in Names(pre) : CountNamed(post, n) = CountNamed(pre, n)

\* create_entities was given an item whose name existed, with another
\* entityType than the stored entity's.
C4_Witness ==
    /\ Completed("create_entities")
    /\ \E k \in DOMAIN last.req : \E e \in Range(PreGraph.entities) :
            /\ HasKey(last.req[k], "name")
            /\ last.req[k].name = e.name
            /\ NewEntity(last.req[k], last.now).entityType # e.entityType
            /\ e \in Range(PostGraph.entities)

\* The contents the items of an add_observations request list for `name`.
RequestedContents(items, name) ==
    UNION {Range(items[k].contents) : k \in {j \in DOMAIN items : items[j].entityName = name}}

\* The last_modified the file held for its i-th entity before the last request:
\* Ok(value), or None when the record had none (the load then supplies one).
StoredLastModified(i) ==
    IF last.pre.kind = "json" /\ HasKey(last.pre.data.object.entities[i], "last_modified")
    THEN Ok(last.pre.data.object.entities[i].last_modified)
    ELSE Raise("None")

\* The result lines add_observations can report for `name`.
AddedLines(name, most) == {AddedLine(n, name) : n \in 1..most}

\* C5: add_observations changes an entity's last_modified (to the time of the
\* call) if and only if it appended an observation to it.  For an entity E and
\* a listed content C that E did not hold, E holds C exactly once afterwards;
\* when E already holds everything listed for it (the second of two equal
\* calls), E's observations and last_modified stay as they were and no result
\* line names E.
C5_AddObservationsOnce ==
    Completed("add_observations") =>
        LET pre  == PreGraph.entities
            post == PostGraph.entities
        IN  /\ Len(post) = Len(pre)
            /\ \A i \in DOMAIN pre :
                LET E     == pre[i]
                    after == post[i]
                    listed == RequestedContents(last.req, E.name)
                    fresh == listed \ Contents(E.observations)
                    lines == {k \in DOMAIN last.resp.returned.results :
                                last.resp.returned.results[k]
                                    \in AddedLines(E.name, Len(after.observations))}
                IN  /\ \A C \in fresh :
                            Cardinality({k \in DOMAIN after.observations :
                                            after.observations[k].content = C}) = 1
                    /\ fresh = {} =>
                            /\ after = E
                            /\ lines = {}
                    /\ fresh # {} =>
                            /\ after.last_modified = last.now
                            /\ StoredLastModified(i).ok =>
                                    after.last_modified # StoredLastModified(i).val
                            /\ lines # {}
                    /\ SubSeq(after.observations, 1, Len(E.observations)) = E.observations

\* add_observations(Alice, [C]) was called twice: the first call appended C at
\* time 1, the second, at time 2, changed nothing and reported no line.
C5_Witness ==
    /\ Completed("add_observations")
    /\ last.req = <<[entityName |-> sAlice, contents |-> <<sTea>>]>>
    /\ last.now = IsoFormat(2)
    /\ last.resp.returned.results = <<>>
    /\ \E i \in DOMAIN PostGraph.entities :
            /\ PostGraph.entities[i].name = sAlice
            /\ PostGraph.entities[i] = PreGraph.entities[i]
            /\ PostGraph.entities[i].last_modified = IsoFormat(1)
            /\ PostGraph.entities[i].observations =
                    << [content |-> sArt, timestamp |-> IsoFormat(1)],
                       [content |-> sTea, timestamp |-> IsoFormat(1)] >>

\* C6: open_nodes(names) returns exactly the entities of the graph whose name is
\* in names, and exactly the relations with an endpoint that is the name of a
\* returned entity; a requested name that is no entity brings no relation.
C6_OpenNodesExact ==
    Completed("open_nodes") =>
        LET out   == last.resp.returned
            pre   == PreGraph
            asked == Range(last.req)
            found == {e.name : e \in {x \in Range(pre.entities) : x.name \in asked}}
            InE(e) == e.name \in asked
            InR(r) == r.from_ \in found \/ r.to \in found
        IN  /\ Range(out.entities) = {e \in Range(pre.entities) : InE(e)}
            /\ Range(out.relations) = {r \in Range(pre.relations) : InR(r)}
            /\ Len(out.entities) =
                    Cardinality({i \in DOMAIN pre.entities : InE(pre.entities[i])})
            /\ Len(out.relations) =
                    Cardinality({i \in DOMAIN pre.relations : InR(pre.relations[i])})

\* open_nodes was asked for a name that is no entity while a relation ends at
\* that name, and the relation was not returned.
C6_Witness ==
    /\ Completed("open_nodes")
    /\ \E n \in Range(last.req) : \E r \in Range(PreGraph.relations) :
            /\ n \notin Names(PreGraph.entities)
            /\ (r.from_ = n \/ r.to = n)
            /\ r \notin Range(last.resp.returned.relations)

\* An entity is matched by a query when the lower-cased query is part of its
\* lower-cased name, entityType or one of its observations' contents.
MatchedBy(e, q) ==
    \E text \in {e.name, e.entityType} \cup Contents(e.observations) :
        Contains(Lower(q), Lower(text))

\* C7: search_nodes(query) returns exactly the matched entities and exactly the
\* relations whose from and to are both names of matched entities; whenever a
\* query matches the entities open_nodes finds for some names, the relations of
\* search_nodes are among those of open_nodes.
C7_SearchNodesBothEndpoints ==
    /\ Completed("search_nodes") =>
        LET out     == last.resp.returned
            pre     == PreGraph
            matched == {e \in Range(pre.entities) : MatchedBy(e, last.req)}
            names   == {e.name : e \in matched}
            InR(r)  == r.from_ \in names /\ r.to \in names
        IN  /\ Range(out.entities) = matched
            /\ Range(out.relations) = {r \in Range(pre.relations) : InR(r)}
            /\ Len(out.entities) =
                    Cardinality({i \in DOMAIN pre.entities : pre.entities[i] \in matched})
            /\ Len(out.relations) =
                    Cardinality({i \in DOMAIN pre.relations : InR(pre.relations[i])})
    /\ LET loaded == Loaded
       IN  loaded.ok =>
            \A q \in Queries :
                LET searched == SearchNodesBody(loaded.val, q)
                    se == Range(searched.entities)
                    sr == Range(searched.relations)
                IN  \A names \in Batches(EntityNames) :
                        LET opened == OpenNodesBody(loaded.val, names)
                        IN  se = Range(opened.entities) => sr \subseteq Range(opened.relations)

\* With Alice -> Bob in the graph, a query that matches Alice alone returned no
\* relation, and open_nodes([Alice]) returns Alice -> Bob.
C7_Witness ==
    /\ Completed("search_nodes")
    /\ Names(last.resp.returned.entities) = {sAlice}
    /\ \E r \in Range(PreGraph.relations) : Triple(r) = <<sAlice, sBob, sKnows>>
    /\ last.resp.returned.relations = <<>>
    /\ \E r \in Range(OpenNodesBody(PreGraph, <<sAlice>>).relations) :
            Triple(r) = <<sAlice, sBob, sKnows>>

\* C8: the load never fails outward: for a file that is absent, empty, not
\* JSON, or JSON that is no graph document, read_graph_file returns the empty
\* graph, and no request that begins with a load raises.
C8_LoadNeverFails ==
    /\ last.op # "startup" => HasKey(last.resp, "returned")
    /\ (last.op = "read_graph" /\ last.pre \in {FileAbsent} \cup TextFiles \cup InvalidFiles)
            => last.resp = Returned(EmptyGraph)

\* What C8 says of the files json.loads refuses, and of the absent file.
C8_TextFilesLoadEmpty ==
    (last.op = "read_graph" /\ last.pre \in {FileAbsent} \cup TextFiles)
        => last.resp = Returned(EmptyGraph)

\* The result of the last retrieve_context is the one its case calls for.
RetrieveOutcomeClassified ==
    LET req  == last.req.request
        resp == last.resp.returned
    IN  /\ (resp = EngineUnavailable) <=> ~wl
        /\ wl =>
            LET empty == \A e \in Range(PreGraph.entities) :
                            Contains(Lower(req.canonical_entity), Lower(e.entityType))
                                => e.observations = <<>>
            IN  /\ (resp = NoMemories(req)) <=> empty
                /\ (~empty /\ HasKey(last.req.engine, "raises"))
                        => resp = RerankingFailed(last.req.engine.raises)
                /\ (~empty /\ HasKey(last.req.engine, "ranking"))
                        => /\ DOMAIN resp = {"tag", "query", "results"}
                           /\ resp.tag = req.canonical_entity
                           /\ resp.query = req.query_thought
        /\ EngineUnavailable # NoMemories(req)
        /\ \A e \in {"engine failure", "WordLlama engine not loaded."} :
                /\ RerankingFailed(e) # EngineUnavailable
                /\ RerankingFailed(e) # NoMemories(req)

\* C9: retrieve_context always ends in one of four returned results: engine
\* unavailable iff no engine is configured; otherwise no memories found iff no
\* entity of a matching entityType has an observation; otherwise the error
\* result if the engine raises; otherwise the ranked results.
C9_RetrieveContextAlwaysReturns ==
    last.op = "retrieve_context" =>
        /\ HasKey(last.resp, "returned")
        /\ RetrieveOutcomeClassified

\* What C9 says of the requests whose load succeeds.
C9_ReturnedIsClassified ==
    Completed("retrieve_context") => RetrieveOutcomeClassified

\* The graph the file held before the last request, the empty graph when the
\* file is no graph document.
GraphBefore ==
    IF ReadGraphFile(last.pre, last.now).ok THEN PreGraph ELSE EmptyGraph

\* The names the relations of that graph start or end at.
EndpointsBefore ==
    {r.from_ : r \in Range(GraphBefore.relations)}
        \cup {r.to : r \in Range(GraphBefore.relations)}

\* The last request named only entities, or relation triples, that the graph
\* did not hold; for delete_entities, names that no entity bears and no
\* relation starts or ends at.
OnlyUnknownNames ==
    \/ /\ last.op = "add_observations"
       /\ \A k \in DOMAIN last.req :
            last.req[k].entityName \notin Names(GraphBefore.entities)
    \/ /\ last.op = "delete_observations"
       /\ \A k \in DOMAIN last.req :
            HasKey(last.req[k], "entityName")
                => last.req[k].entityName \notin Names(GraphBefore.entities)
    \/ /\ last.op = "open_nodes"
       /\ \A k \in DOMAIN last.req : last.req[k] \notin Names(GraphBefore.entities)
    \/ /\ last.op = "delete_entities"
       /\ \A k \in DOMAIN last.req :
            last.req[k] \notin Names(GraphBefore.entities) \cup EndpointsBefore
    \/ /\ last.op = "delete_relations"
       /\ \A k \in DOMAIN last.req :
            Triple(last.req[k]) \notin Triples(GraphBefore.relations)

\* The persisted entities and relations are what they were before the request.
GraphAsBefore ==
    IF last.op = "open_nodes" THEN file = last.pre ELSE PostGraph = GraphBefore

\* C10: a request that names only unknown entities or relation triples succeeds
\* and leaves the persisted entities and relations as they were.
C10_UnknownNamesAreNoOps ==
    OnlyUnknownNames =>
        /\ HasKey(last.resp, "returned")
        /\ GraphAsBefore

\* What C10 says of the requests whose load succeeds.
C10_ReturnedIsNoOp ==
    (OnlyUnknownNames /\ HasKey(last.resp, "returned")) => GraphAsBefore

\* Not so for a name that no entity bears but a relation ends at: the cascade
\* of delete_entities removes that relation (as C1 says it does).
C10_UnknownEntityNeverCascades ==
    (/\ Completed("delete_entities")
     /\ \A k \in DOMAIN last.req : last.req[k] \notin Names(GraphBefore.entities))
        => GraphAsBefore

\* The requests in flight that have saved.
Saved == {i \in DOMAIN inflight : inflight[i].pc = "done" /\ inflight[i].savedAt > 0}

\* The entities request i added to the graph it had loaded.
NewEntities(i) ==
    Range(inflight[i].effect.graph.entities)
        \ Range(ReadGraphFile(inflight[i].pre, inflight[i].now).val.entities)

\* Request b was the last to save.
SavedLast(b) == \A c \in Saved : inflight[c].savedAt <= inflight[b].savedAt

\* Request b loaded what request a had saved: a's save came before b's load and
\* no other save came between the two.
RanAfter(a, b) ==
    /\ inflight[a].savedAt < inflight[b].loadedAt
    /\ \A c \in Saved : ~(/\ inflight[a].savedAt < inflight[c].savedAt
                            /\ inflight[c].savedAt < inflight[b].loadedAt)

\* Request b loaded before request a saved, and saved after it.
Overlapped(a, b) ==
    /\ inflight[b].loadedAt < inflight[a].savedAt
    /\ inflight[a].savedAt < inflight[b].savedAt

\* C11: of two create_entities requests a and b that both returned, b saving
\* last: when b ran after a, the persisted graph holds the entities a created
\* and those b created; when b loaded before a saved, it holds none of the
\* entities a created (the update of the request that saved first is lost).
C11_LostUpdate ==
    \A a, b \in Saved :
        (/\ a # b
         /\ inflight[a].op = "create_entities"
         /\ inflight[b].op = "create_entities"
         /\ SavedLast(b)) =>
            LET persisted == Range(Loaded.val.entities)
            IN  /\ HasKey(inflight[a].effect, "value")
                /\ HasKey(inflight[b].effect, "value")
                /\ NewEntities(b) \subseteq persisted
                /\ RanAfter(a, b) => NewEntities(a) \subseteq persisted
                /\ Overlapped(a, b) => NewEntities(a) \cap persisted = {}

\* create_entities(Alice) and create_entities(Bob) both loaded the empty graph
\* and both returned; Alice was saved first, and the file holds Bob alone.
C11_Witness ==
    /\ Len(inflight) = 2
    /\ Saved = {1, 2}
    /\ inflight[1].pre = FileAbsent /\ inflight[2].pre = FileAbsent
    /\ inflight[1].op = "create_entities" /\ inflight[2].op = "create_entities"
    /\ {e.name : e \in NewEntities(1)} = {sAlice}
    /\ {e.name : e \in NewEntities(2)} = {sBob}
    /\ Overlapped(1, 2)
    /\ HasKey(inflight[1].effect, "value") /\ HasKey(inflight[2].effect, "value")
    /\ Names(Loaded.val.entities) = {sBob}

\* The deletion items of the last request that name `name`.
DeletionsNaming(name) ==
    {k \in DOMAIN last.req :
        HasKey(last.req[k], "entityName") /\ last.req[k].entityName = name}

\* The contents those items list.
ListedForDeletion(name) ==
    UNION {IF HasKey(last.req[k], "observations")
           THEN Range(last.req[k].observations) ELSE {} : k \in DeletionsNaming(name)}

\* C12: delete_observations removes, from every entity a deletion item names,
\* the observations whose content is one of the listed contents, keeps the
\* others in their order and sets the entity's last_modified to the time of
\* the call, also when nothing was removed; an entity no item names stays as
\* it was.
C12_DeleteObservationsTouches ==
    Completed("delete_observations") =>
        LET pre  == PreGraph.entities
            post == PostGraph.entities
        IN  /\ Len(post) = Len(pre)
            /\ \A i \in DOMAIN pre :
                LET E == pre[i]
                    Survives(o) == o.content \notin ListedForDeletion(E.name)
                IN  IF DeletionsNaming(E.name) = {} THEN post[i] = E
                    ELSE post[i] = [E EXCEPT
                                      !.observations = SelectSeq(E.observations, Survives),
                                      !.last_modified = last.now]

\* delete_observations named an entity that holds observations and removed
\* none of them, and the entity's last_modified is the time of the call.
C12_Witness ==
    /\ Completed("delete_observations")
    /\ \E i \in DOMAIN PreGraph.entities :
            /\ DeletionsNaming(PreGraph.entities[i].name) # {}
            /\ PreGraph.entities[i].observations # <<>>
            /\ PostGraph.entities[i].observations = PreGraph.entities[i].observations
            /\ PreGraph.entities[i].last_modified # last.now
            /\ PostGraph.entities[i].last_modified = last.now

\* C13: whatever request was served, an entity that was in the graph before it
\* and is in the graph after it has the created_at it had (and its name and
\* entityType; its last_modified is what it was or the time of the request); an
\* entity that was not in the graph before was inserted by create_entities and
\* its created_at is the time of that call.  So as long as an entity stays in
\* the graph, its created_at is the stamp of the call that inserted it.
C13_CreatedAtSetOnce ==
    (last.op # "startup" /\ HasKey(last.resp, "returned")) =>
        LET pre  == PreGraph.entities
            post == PostGraph.entities
        IN  \A j \in DOMAIN post :
                IF post[j].name \in Names(pre)
                THEN \E i \in DOMAIN pre :
                        /\ pre[i].name = post[j].name
                        /\ post[j].created_at = pre[i].created_at
                        /\ post[j].entityType = pre[i].entityType
                        /\ post[j].last_modified \in {pre[i].last_modified, last.now}
                ELSE /\ last.op = "create_entities"
                     /\ post[j].created_at = last.now
                     /\ post[j].last_modified = last.now

\* An entity created at time 1 was given an observation at time 2: its
\* last_modified is the time of the second call, its created_at that of the
\* first.
C13_Witness ==
    /\ Completed("add_observations")
    /\ last.now = IsoFormat(2)
    /\ \E i \in DOMAIN PostGraph.entities :
            /\ PreGraph.entities[i].created_at = IsoFormat(1)
            /\ PreGraph.entities[i].last_modified = IsoFormat(1)
            /\ PostGraph.entities[i].created_at = IsoFormat(1)
            /\ PostGraph.entities[i].last_modified = IsoFormat(2)

\* C14: loading the file that save wrote gives back the graph that was saved,
\* at whatever later time the load happens: the graph a handler held when it
\* saved, and the graph a load returns (were it saved as it is).
C14_SaveLoadIdentity ==
    /\ HasKey(last, "held") =>
            /\ file = SaveGraph(last.held)
            /\ ReadGraphFile(file, IsoFormat(clock)) = Ok(last.held)
    /\ LET loaded == Loaded
       IN  loaded.ok =>
            ReadGraphFile(SaveGraph(loaded.val), IsoFormat(clock + 1)) = Ok(loaded.val)

\* A handler loaded the legacy file, which made it stamp a created_at and an
\* observation with the time of the call, and saved entities, observations
\* and relations; the file loads to the graph the handler held.
C14_Witness ==
    /\ HasKey(last, "held")
    /\ last.pre = LegacyFile
    /\ last.held.relations # <<>>
    /\ \E e \in Range(last.held.entities) :
            /\ e.created_at = last.now
            /\ \E o \in Range(e.observations) : o.timestamp = last.now
    /\ ReadGraphFile(file, IsoFormat(clock)) = Ok(last.held)

\* The entity records of the file the last request loaded.
StoredEntities ==
    IF HasKey(last.pre.data.object, "entities")
    THEN last.pre.data.object.entities ELSE <<>>

\* C15: read_graph returns, for every bare string among the stored observations
\* of an entity, an observation with that content and the created_at of the
\* returned entity as its timestamp, where that created_at is the stored one,
\* or else the stored last_modified, or else the time of the load; a stored
\* structured observation is returned with its own content and timestamp.
C15_BareStringsTakeCreatedAt ==
    (Completed("read_graph") /\ last.pre.kind = "json") =>
        LET stored == StoredEntities
            got    == last.resp.returned.entities
        IN  /\ Len(got) = Len(stored)
            /\ \A i \in DOMAIN stored :
                LET obs == IF HasKey(stored[i], "observations")
                           THEN stored[i].observations ELSE <<>>
                IN  /\ got[i].created_at =
                            IF HasKey(stored[i], "created_at") /\ stored[i].created_at # <<>>
                            THEN stored[i].created_at
                            ELSE IF HasKey(stored[i], "last_modified")
                                    /\ stored[i].last_modified # <<>>
                            THEN stored[i].last_modified
                            ELSE last.now
                    /\ Len(got[i].observations) = Len(obs)
                    /\ \A j \in DOMAIN obs :
                            got[i].observations[j] =
                                IF HasKey(obs[j], "str")
                                THEN [content |-> obs[j].str,
                                      timestamp |-> got[i].created_at]
                                ELSE [content |-> obs[j].content,
                                      timestamp |-> obs[j].timestamp]

\* read_graph loaded the legacy file: Alice, stored without timestamps, has
\* the time of the load as created_at and on her observation; Bob, stored with
\* last_modified alone, has it as created_at and on his bare observation.
C15_Witness ==
    /\ Completed("read_graph")
    /\ last.pre = LegacyFile
    /\ last.resp.returned.entities[1].created_at = last.now
    /\ last.resp.returned.entities[1].observations =
            <<[content |-> sArt, timestamp |-> last.now]>>
    /\ last.resp.returned.entities[2].created_at = sOld
    /\ last.resp.returned.entities[2].observations =
            <<[content |-> sArt, timestamp |-> sOld],
              [content |-> sTea, timestamp |-> sOld]>>

\* How many observations of the sequence have the content C.
CountContent(observations, C) ==
    Cardinality({k \in DOMAIN observations : observations[k].content = C})

\* How often the string C stands among the initial observations of an item.
CountListed(item, C) ==
    IF HasKey(item, "observations")
    THEN Cardinality({k \in DOMAIN item.observations :
                        item.observations[k] = [str |-> C]})
    ELSE 0

\* The first item of the last create_entities request that bears `name`.
FirstItemNamed(name) ==
    CHOOSE k \in DOMAIN last.req :
        /\ HasKey(last.req[k], "name") /\ last.req[k].name = name
        /\ \A j \in DOMAIN last.req :
                j < k => ~(HasKey(last.req[j], "name") /\ last.req[j].name = name)

\* C16 as claimed: from an empty graph, no entity of the persisted graph ever
\* holds two observations with the same content.
C16_NoDuplicateObservations ==
    \A e \in Range(PostGraph.entities) :
        \A i, j \in DOMAIN e.observations :
            e.observations[i].content = e.observations[j].content => i = j

\* C16 as amended: from an empty graph, an entity holds two observations with
\* the same content only when the create_entities item that inserted it listed
\* that content more than once.  An entity inserted by create_entities holds
\* each content as often as its item lists it; add_observations leaves an
\* entity with one observation of a listed content it did not hold and changes
\* no other count; delete_observations raises no count.
C16_DuplicatesOnlyFromCreation ==
    LET post == PostGraph.entities
    IN  /\ \A e \in Range(post) :
            \A i, j \in DOMAIN e.observations :
                (i # j /\ e.observations[i].content = e.observations[j].content)
                    => /\ e.observations[i].timestamp = e.created_at
                       /\ e.observations[j].timestamp = e.created_at
        /\ Completed("create_entities") =>
            \A j \in DOMAIN post :
                post[j].name \notin Names(PreGraph.entities) =>
                    \A C \in {sTea, sArt} \cup Contents(post[j].observations) :
                        CountContent(post[j].observations, C)
                            = CountListed(last.req[FirstItemNamed(post[j].name)], C)
        /\ Completed("add_observations") =>
            \A i \in DOMAIN PreGraph.entities :
                \A C \in Contents(post[i].observations) :
                    CountContent(post[i].observations, C) =
                        IF /\ C \in RequestedContents(last.req, post[i].name)
                           /\ C \notin Contents(PreGraph.entities[i].observations)
                        THEN 1
                        ELSE CountContent(PreGraph.entities[i].observations, C)
        /\ Completed("delete_observations") =>
            \A i \in DOMAIN PreGraph.entities :
                \A C \in Contents(post[i].observations) :
                    CountContent(post[i].observations, C)
                        <= CountContent(PreGraph.entities[i].observations, C)

\* add_observations listed a content twice for an entity that did not hold it,
\* and the entity holds it once.
C16_Witness ==
    /\ Completed("add_observations")
    /\ \E k \in DOMAIN last.req : \E i \in DOMAIN PreGraph.entities :
            /\ last.req[k].entityName = PreGraph.entities[i].name
            /\ last.req[k].contents = <<sArt, sArt>>
            /\ CountContent(PreGraph.entities[i].observations, sArt) = 0
            /\ CountContent(PostGraph.entities[i].observations, sArt) = 1

\* s is t with some elements left out: the same elements in the same order.
RECURSIVE IsSubsequence(_, _)
IsSubsequence(s, t) ==
    IF s = <<>> THEN TRUE
    ELSE IF t = <<>> THEN FALSE
    ELSE IF Head(s) = Head(t) THEN IsSubsequence(Tail(s), Tail(t))
    ELSE IsSubsequence(s, Tail(t))

\* C17: a request that does not save leaves the file as it is.  Of a request
\* that saves, every entity that was in the graph it loaded and is in the graph
\* it persisted holds, after add_observations, the observations it held, as
\* they were, followed by the new ones, which bear the time of the call; after
\* delete_observations, some of the observations it held, as they were and in
\* the order they had; after any other request, exactly the observations it
\* held.  The observations of a new entity bear the time of its creation.
C17_ObservationsAppendOnly ==
    /\ (last.op # "startup" /\ ~HasKey(last, "held")) => file = last.pre
    /\ HasKey(last, "held") =>
        LET pre  == PreGraph.entities
            post == PostGraph.entities
        IN  \A j \in DOMAIN post :
                LET new == post[j].observations
                IN  IF post[j].name \in Names(pre)
                    THEN \E i \in DOMAIN pre :
                        /\ pre[i].name = post[j].name
                        /\ LET old == pre[i].observations
                           IN  CASE last.op = "add_observations" ->
                                    /\ Len(new) >= Len(old)
                                    /\ SubSeq(new, 1, Len(old)) = old
                                    /\ \A k \in (Len(old) + 1)..Len(new) :
                                            /\ new[k].timestamp = last.now
                                            /\ new[k].content \notin Contents(old)
                                 [] last.op = "delete_observations" ->
                                    IsSubsequence(new, old)
                                 [] OTHER -> new = old
                    ELSE \A k \in DOMAIN new : new[k].timestamp = last.now

\* add_observations gave a new observation to an entity that held one: the
\* old one stands first, as it was, and the new one, stamped with the time of
\* the call, after it.
C17_Witness ==
    /\ Completed("add_observations")
    /\ \E i \in DOMAIN PreGraph.entities :
            /\ Len(PreGraph.entities[i].observations) = 1
            /\ Len(PostGraph.entities[i].observations) = 2
            /\ PostGraph.entities[i].observations[1] = PreGraph.entities[i].observations[1]
            /\ PostGraph.entities[i].observations[2].timestamp = last.now
            /\ PreGraph.entities[i].observations[1].timestamp # last.now

\* The file the last request loaded was written by save_graph: it is the
\* encoding of the graph it loads to.
LoadedFileWasSaved ==
    /\ last.pre.kind = "json"
    /\ LET loaded == ReadGraphFile(last.pre, last.now)
       IN  loaded.ok /\ SaveGraph(loaded.val) = last.pre

\* C18: on a file written by save, read_graph, open_nodes, search_nodes and
\* retrieve_context leave the file as it is, and read_graph returns the graph
\* the file is the encoding of; create_relations and delete_relations leave
\* the entities as they are; create_entities, add_observations and
\* delete_observations leave the relations as they are.
C18_FrameEffects ==
    (last.op # "startup" /\ LoadedFileWasSaved) =>
        LET pre == PreGraph
        IN  /\ HasKey(last.resp, "returned")
            /\ last.op \in {"read_graph", "open_nodes", "search_nodes", "retrieve_context"}
                    => file = last.pre
            /\ last.op = "read_graph"
                    => /\ SaveGraph(last.resp.returned) = last.pre
                       /\ last.resp.returned = pre
            /\ last.op \in {"create_relations", "delete_relations"}
                    => PostGraph.entities = pre.entities
            /\ last.op \in {"create_entities", "add_observations", "delete_observations"}
                    => PostGraph.relations = pre.relations

\* create_relations added a relation to a saved graph that holds entities, and
\* the entities are as they were.
C18_Witness ==
    /\ Completed("create_relations")
    /\ LoadedFileWasSaved
    /\ Names(PreGraph.entities) = {sAlice, sBob}
    /\ Len(PostGraph.relations) = Len(PreGraph.relations) + 1
    /\ PostGraph.entities = PreGraph.entities

\* The last request was a retrieve_context whose engine returned a ranking.
EngineRanked == Completed("retrieve_context") /\ HasKey(last.req.engine, "ranking")

\* The results of the last retrieve_context are the first `length` pairs of the
\* engine's ranking, in the engine's order.
ResultsArePrefix(length) ==
    LET ranking == last.req.engine.ranking
        results == last.resp.returned.results
    IN  /\ Len(results) = length
        /\ \A i \in 1..length :
                /\ results[i].content = ranking[i][1]
                /\ results[i].score = Round4(ranking[i][2])

\* C19: when the engine returns a ranking of n pairs, the results of
\* retrieve_context are its first min(max(top_k, 0), n) pairs, for every
\* integer top_k: never more than top_k, and none when top_k <= 0.
C19_ResultsAreFirstTopK ==
    EngineRanked =>
        LET n     == Len(last.req.engine.ranking)
            top_k == last.req.request.top_k
            most  == IF top_k > 0 THEN top_k ELSE 0
        IN  ResultsArePrefix(IF most < n THEN most ELSE n)

\* What C19 says of top_k >= 0.
C19_NonNegativeTopK ==
    (EngineRanked /\ last.req.request.top_k >= 0) =>
        LET n == Len(last.req.engine.ranking)
        IN  ResultsArePrefix(IF last.req.request.top_k < n
                             THEN last.req.request.top_k ELSE n)

\* What the code does for top_k < 0: ranked_results[: top_k] leaves out the
\* last -top_k pairs.
C19_NegativeTopKDropsTail ==
    (EngineRanked /\ last.req.request.top_k < 0) =>
        LET n == Len(last.req.engine.ranking)
        IN  ResultsArePrefix(IF n + last.req.request.top_k > 0
                             THEN n + last.req.request.top_k ELSE 0)

\* C20: with the loads and saves of any requests interleaved, from a file with
\* unique entity names and unique relation triples, the file always loads to
\* a graph with unique entity names and unique relation triples.
C20_UniquenessSurvivesRace ==
    LET loaded == Loaded
    IN  /\ loaded.ok
        /\ \A i, j \in DOMAIN loaded.val.entities :
                loaded.val.entities[i].name = loaded.val.entities[j].name => i = j
        /\ \A i, j \in DOMAIN loaded.val.relations :
                Triple(loaded.val.relations[i]) = Triple(loaded.val.relations[j]) => i = j

\* Two requests that both loaded a graph without Bob and both created Bob have
\* saved, one over the other, and the file holds one Bob.
C20_Witness ==
    /\ Saved = {1, 2}
    /\ Overlapped(1, 2)
    /\ inflight[1].op = "create_entities"
    /\ inflight[2].op = "create_entities"
    /\ {e.name : e \in NewEntities(1)} = {sBob}
    /\ {e.name : e \in NewEntities(2)} = {sBob}
    /\ CountNamed(Loaded.val.entities, sBob) = 1

====
